---- MODULE Spec2Model ----
(***************************************************************************)
(* PromptMate backend: the POST /rewrite pipeline (request validation, the *)
(* Gemini client with its connectivity probe, 30 second timeout race and   *)
(* offline mock transform, auto-save to history) and the history store     *)
(* handlers (save, list, favorites, delete, toggle favorite).              *)
(*                                                                         *)
(* JavaScript strings whose content the code inspects are modelled as      *)
(* sequences of one-character strings, so that trim(), the regular         *)
(* expressions of getMockResponse, startsWith() and includes() are         *)
(* computed character by character.                                        *)
(*                                                                         *)
(* Not represented: the rate limiters and body parser in front of the      *)
(* routes, the search filter and sortBy of the listings, and the rounding  *)
(* of calculateCost.  A document's timestamp and createdAt are the order   *)
(* of its creation; its updatedAt is kept relative to createdAt.           *)
(***************************************************************************)
EXTENDS Integers, Sequences, FiniteSets, TLC

VARIABLES
    genAI,    \* GeminiService.genAI: "null" or "client"
    model,    \* GeminiService.model: "undefined" or "model"
    store,    \* the Prompt collection: a set of documents
    nextId,   \* the next _id the store hands out
    req,      \* per request slot: the request being served (or Idle)
    pc,       \* per request slot: where its handler is suspended
    loc,      \* per request slot: the handler's local variables
    ai,       \* per request slot: the outbound Gemini calls and the timer
    res,      \* per request slot: the responses sent, in order
    tlog,     \* the last two toggles saved by toggleFavorite
    fin,      \* input of a direct getMockResponse call
    fout      \* its result

vars == <<genAI, model, store, nextId, req, pc, loc, ai, res, tlog, fin, fout>>

\* A JSON or query value is a JavaScript string (a sequence of characters) or
\* one of these three values, which are no strings
Undefined == <<"undefined">>
Null      == <<"null">>
AnObject  == <<"object">>

----------------------------------------------------------------------------
(* Bounds of the model *)

\* longest text drawn for a direct getMockResponse call
MaxLen == 3
\* number of documents the store ever creates
MaxDocs == 2
\* largest Date.now() - startTime observed, in milliseconds
MaxElapsed == 0

----------------------------------------------------------------------------
(* JavaScript string primitives *)

Letters ==
    {"a","b","c","d","e","f","g","h","i","j","k","l","m","n","o","p","q","r",
     "s","t","u","v","w","x","y","z",
     "A","B","C","D","E","F","G","H","I","J","K","L","M","N","O","P","Q","R",
     "S","T","U","V","W","X","Y","Z"}

Digits == {"0","1","2","3","4","5","6","7","8","9"}

\* \w of a JavaScript regular expression
IsWordChar(c) == c \in Letters \cup Digits \cup {"_"}

\* \s of a JavaScript regular expression, and the characters trim() strips
IsSpace(c) == c \in {" ", "\t", "\n", "\r"}

RECURSIVE Flatten(_, _, _)
\* concatenation of the sequences ss[lo..hi]
Flatten(ss, lo, hi) ==
    IF lo > hi THEN <<>>
    ELSE IF lo = hi THEN ss[lo]
    ELSE LET mid == (lo + hi) \div 2
         IN  Flatten(ss, lo, mid) \o Flatten(ss, mid + 1, hi)

RECURSIVE LeadingSpaces(_, _, _)
\* number of whitespace characters s[lo..hi] starts with
LeadingSpaces(s, lo, hi) ==
    IF lo > hi THEN 0
    ELSE IF lo = hi THEN (IF IsSpace(s[lo]) THEN 1 ELSE 0)
    ELSE LET mid == (lo + hi) \div 2
             l   == LeadingSpaces(s, lo, mid)
         IN  IF l = mid - lo + 1 THEN l + LeadingSpaces(s, mid + 1, hi) ELSE l

RECURSIVE TrailingSpaces(_, _, _)
\* number of whitespace characters s[lo..hi] ends with
TrailingSpaces(s, lo, hi) ==
    IF lo > hi THEN 0
    ELSE IF lo = hi THEN (IF IsSpace(s[lo]) THEN 1 ELSE 0)
    ELSE LET mid == (lo + hi) \div 2
             t   == TrailingSpaces(s, mid + 1, hi)
         IN  IF t = hi - mid THEN t + TrailingSpaces(s, lo, mid) ELSE t

\* String.prototype.trim
trim(s) ==
    LET l == LeadingSpaces(s, 1, Len(s))
    IN  IF l = Len(s) THEN <<>>
        ELSE SubSeq(s, l + 1, Len(s) - TrailingSpaces(s, 1, Len(s)))

\* String.prototype.startsWith
startsWith(s, prefix) ==
    Len(s) >= Len(prefix) /\ SubSeq(s, 1, Len(prefix)) = prefix

\* String.prototype.includes
includes(s, sub) ==
    \E k \in 0..(Len(s) - Len(sub)) : SubSeq(s, k + 1, k + Len(sub)) = sub

\* s.split(' ').length
splitLength(s) == Cardinality({k \in 1..Len(s) : s[k] = " "}) + 1

\* s.replace(/\bi\b/g, 'I')
replaceI(s) ==
    [k \in 1..Len(s) |->
        IF /\ s[k] = "i"
           /\ (k = 1 \/ ~IsWordChar(s[k - 1]))
           /\ (k = Len(s) \/ ~IsWordChar(s[k + 1]))
        THEN "I" ELSE s[k]]

\* s.replace(/\bu\b/g, 'you')
replaceU(s) ==
    Flatten([k \in 1..Len(s) |->
                IF /\ s[k] = "u"
                   /\ (k = 1 \/ ~IsWordChar(s[k - 1]))
                   /\ (k = Len(s) \/ ~IsWordChar(s[k + 1]))
                THEN <<"y", "o", "u">> ELSE <<s[k]>>],
            1, Len(s))

\* a bug: /\s/g for /\s+/g, every whitespace character replaced by a space
collapseSpacesKeepsRuns(s) ==
    [k \in 1..Len(s) |-> IF IsSpace(s[k]) THEN " " ELSE s[k]]

\* s.replace(/\s+/g, ' ')
collapseSpaces(s) ==
    Flatten([k \in 1..Len(s) |->
                IF ~IsSpace(s[k]) THEN <<s[k]>>
                ELSE IF k = 1 \/ ~IsSpace(s[k - 1]) THEN <<" ">>
                ELSE <<>>],
            1, Len(s))

\* /[.!?]$/.test(s)
endsWithPunctuation(s) == s # <<>> /\ s[Len(s)] \in {".", "!", "?"}

----------------------------------------------------------------------------
(* Enumerations *)

\* Prompt.js: the enum of tone
toneEnum ==
    {<<"f", "o", "r", "m", "a", "l">>, <<"c", "a", "s", "u", "a", "l">>, <<"f", "r", "i", "e",
                                                                           "n", "d", "l", "y">>,
     <<"p", "r", "o", "f", "e", "s", "s", "i", "o", "n", "a", "l">>, <<"c", "r", "e", "a", "t",
                                                                       "i", "v", "e">>, <<"c", "o", "n", "c",
                                                                                          "i", "s", "e">>}

\* Prompt.js: the enum of type
typeEnum ==
    {<<"e", "m", "a", "i", "l">>, <<"m", "e", "s", "s", "a", "g", "e">>, <<"e", "x", "p", "l",
                                                                           "a", "n", "a", "t",
                                                                           "i", "o", "n">>, <<"s", "u", "m", "m",
                                                                                              "a", "r", "y">>,
     <<"p", "r", "o", "p", "o", "s", "a", "l">>, <<"r", "e", "p", "o", "r", "t">>, <<"o", "t", "h", "e",
                                                                                     "r">>}

\* typeof v === 'string'
IsString(v) == v \notin {Undefined, Null, AnObject}

\* JavaScript truthiness: undefined, null and the empty string are falsy
Truthy(v) == v \notin {Undefined, Null, <<>>}

----------------------------------------------------------------------------
(* GeminiService: the mock transform *)

FormalPrefix   == <<"I", " ", "w", "o", "u", "l", "d", " ", "l", "i", "k", "e", " ", "t", "o",
                    " ", "f", "o", "r", "m", "a", "l", "l", "y", " ", "r", "e", "q", "u", "e",
                    "s", "t", " ", "a", "s", "s", "i", "s", "t", "a", "n", "c", "e", " ", "w",
                    "i", "t", "h", " ", "t", "h", "e", " ", "f", "o", "l", "l", "o", "w", "i",
                    "n", "g", ":", " ">>
FriendlyPrefix == <<"H", "i", " ", "t", "h", "e", "r", "e", "!", " ">>
FriendlySuffix == <<" ", "H", "o", "p", "e", " ", "t", "h", "i", "s", " ", "h", "e", "l", "p",
                    "s", "!">>
CasualPrefix   == <<"H", "e", "y", ",", " ">>
EmailHead      == <<"S", "u", "b", "j", "e", "c", "t", ":", " ", "R", "e", "q", "u", "e", "s",
                    "t", " ", "f", "o", "r", " ", "A", "s", "s", "i", "s", "t", "a", "n", "c",
                    "e", "\n", "\n", "D", "e", "a", "r", " ", "[", "R", "e", "c", "i", "p", "i",
                    "e", "n", "t", "]", ",", "\n", "\n">>
EmailTail      == <<"\n", "\n", "B", "e", "s", "t", " ", "r", "e", "g", "a", "r", "d", "s", ",",
                    "\n", "[", "Y", "o", "u", "r", " ", "N", "a", "m", "e", "]">>

\* a bug: the terminal period is never appended
basicImprovementsNoPeriod(originalPrompt) ==
    trim(collapseSpaces(replaceU(replaceI(originalPrompt))))

\* getMockResponse, "Basic improvements": the chained replace calls and trim,
\* then the terminal period
basicImprovements(originalPrompt) ==
    LET t == trim(collapseSpaces(replaceU(replaceI(originalPrompt))))
    IN  IF ~endsWithPunctuation(t) THEN t \o <<".">> ELSE t

\* getMockResponse, "Tone modifications"
toneModification(text, tone) ==
    IF tone = <<"f", "o", "r", "m", "a", "l">> THEN FormalPrefix \o text
    ELSE IF tone = <<"f", "r", "i", "e", "n", "d", "l", "y">> THEN FriendlyPrefix \o text \o FriendlySuffix
    ELSE IF tone = <<"c", "a", "s", "u", "a", "l">> THEN CasualPrefix \o text
    ELSE text

\* getMockResponse, "Type modifications"
typeModification(text, type) ==
    IF type = <<"e", "m", "a", "i", "l">> THEN EmailHead \o text \o EmailTail ELSE text

\* GeminiService.getMockResponse; processingTime is Date.now() - startTime
getMockResponse(originalPrompt, tone, type, processingTime) ==
    LET mockRewritten ==
            typeModification(toneModification(basicImprovements(originalPrompt), tone), type)
    IN  [success |-> TRUE,
         rewrittenPrompt |-> mockRewritten,
         metadata |-> [processingTime |-> processingTime,
                       model |-> <<"m", "o", "c", "k", "-", "g", "e", "m", "i", "n", "i">>,
                       tone |-> tone,
                       type |-> type,
                       originalLength |-> Len(originalPrompt),
                       rewrittenLength |-> Len(mockRewritten),
                       apiCost |-> 0]]

\* GeminiService.calculateCost, in units of 0.0000005 (total characters); the
\* toFixed(6) rounding of the product is not represented
calculateCost(originalText, rewrittenText) == Len(originalText) + Len(rewrittenText)

----------------------------------------------------------------------------
(* GeminiService: construction and failure classification *)

\* GeminiService.initializeService: the handle left by the constructor for the
\* GEMINI_API_KEY of the environment; ctorThrows and modelThrows say whether
\* new GoogleGenerativeAI(...) and getGenerativeModel(...) throw
initializeService(apiKey, ctorThrows, modelThrows) ==
    IF ~Truthy(apiKey) THEN [genAI |-> "null", model |-> "undefined"]
    ELSE IF ~startsWith(apiKey, <<"A", "I", "z", "a">>) THEN [genAI |-> "null", model |-> "undefined"]
    ELSE IF ctorThrows THEN [genAI |-> "null", model |-> "undefined"]
    ELSE IF modelThrows THEN [genAI |-> "null", model |-> "undefined"]
    ELSE [genAI |-> "client", model |-> "model"]

\* a bug: the availability check is missing, every call goes to the provider
serviceUnavailableNever(g, m) == FALSE

\* !this.genAI || !this.model
serviceUnavailable(g, m) == g = "null" \/ m = "undefined"

TimeoutError == <<"R", "e", "q", "u", "e", "s", "t", " ", "t", "i", "m", "e", "o", "u", "t",
                  " ", "a", "f", "t", "e", "r", " ", "3", "0", " ", "s", "e", "c", "o", "n",
                  "d", "s">>

\* a bug: the timeout branch of the classification is missing
errorMessageNoTimeout(message) ==
    IF includes(message, <<"f", "e", "t", "c", "h", " ", "f", "a", "i", "l", "e", "d">>)
    THEN <<"N", "e", "t", "w", "o", "r", "k", " ", "c", "o", "n", "n", "e", "c", "t", "i",
           "o", "n", " ", "f", "a", "i", "l", "e", "d", " ", "-", " ", "c", "h", "e", "c",
           "k", " ", "y", "o", "u", "r", " ", "i", "n", "t", "e", "r", "n", "e", "t", " ",
           "c", "o", "n", "n", "e", "c", "t", "i", "o", "n">>
    ELSE IF includes(message, <<"A", "P", "I", " ", "k", "e", "y">>)
    THEN <<"A", "P", "I", " ", "k", "e", "y", " ", "i", "s", " ", "i", "n", "v", "a", "l",
           "i", "d", " ", "o", "r", " ", "e", "x", "p", "i", "r", "e", "d">>
    ELSE <<"F", "a", "i", "l", "e", "d", " ", "t", "o", " ", "r", "e", "w", "r", "i", "t",
           "e", " ", "p", "r", "o", "m", "p", "t">>

\* GeminiService.rewritePrompt, catch block: the message for error.message
errorMessage(message) ==
    IF includes(message, <<"f", "e", "t", "c", "h", " ", "f", "a", "i", "l", "e", "d">>)
    THEN <<"N", "e", "t", "w", "o", "r", "k", " ", "c", "o", "n", "n", "e", "c", "t", "i",
           "o", "n", " ", "f", "a", "i", "l", "e", "d", " ", "-", " ", "c", "h", "e", "c",
           "k", " ", "y", "o", "u", "r", " ", "i", "n", "t", "e", "r", "n", "e", "t", " ",
           "c", "o", "n", "n", "e", "c", "t", "i", "o", "n">>
    ELSE IF includes(message, <<"t", "i", "m", "e", "o", "u", "t">>)
    THEN <<"R", "e", "q", "u", "e", "s", "t", " ", "t", "i", "m", "e", "d", " ", "o", "u",
           "t", " ", "-", " ", "p", "l", "e", "a", "s", "e", " ", "t", "r", "y", " ", "a",
           "g", "a", "i", "n">>
    ELSE IF includes(message, <<"A", "P", "I", " ", "k", "e", "y">>)
    THEN <<"A", "P", "I", " ", "k", "e", "y", " ", "i", "s", " ", "i", "n", "v", "a", "l",
           "i", "d", " ", "o", "r", " ", "e", "x", "p", "i", "r", "e", "d">>
    ELSE <<"F", "a", "i", "l", "e", "d", " ", "t", "o", " ", "r", "e", "w", "r", "i", "t",
           "e", " ", "p", "r", "o", "m", "p", "t">>

\* GeminiService.rewritePrompt, catch block: the result returned
failureResult(message, originalPrompt, tone, type, processingTime) ==
    [success |-> FALSE,
     error |-> errorMessage(message),
     details |-> message,
     fallback |-> getMockResponse(originalPrompt, tone, type, processingTime)]

\* GeminiService.rewritePrompt, the result when testConnection reports failure
connectionFailedResult(details, originalPrompt, tone, type, processingTime) ==
    [success |-> FALSE,
     error |-> <<"F", "a", "i", "l", "e", "d", " ", "t", "o", " ", "c", "o", "n", "n", "e",
                 "c", "t", " ", "t", "o", " ", "G", "e", "m", "i", "n", "i", " ", "A", "P",
                 "I">>,
     details |-> details,
     fallback |-> getMockResponse(originalPrompt, tone, type, processingTime)]

\* GeminiService.rewritePrompt, the result when the generation call wins the race
successResult(rewrittenText, originalPrompt, tone, type, processingTime) ==
    [success |-> TRUE,
     rewrittenPrompt |-> trim(rewrittenText),
     metadata |-> [processingTime |-> processingTime,
                   model |-> <<"g", "e", "m", "i", "n", "i", "-", "1", ".", "5", "-", "f", "l",
                               "a", "s", "h">>,
                   tone |-> tone,
                   type |-> type,
                   originalLength |-> Len(originalPrompt),
                   rewrittenLength |-> Len(rewrittenText),
                   apiCost |-> calculateCost(originalPrompt, rewrittenText)]]

----------------------------------------------------------------------------
(* Request validation and responses *)

\* array.join(', ')
RECURSIVE join(_)
join(array) ==
    IF array = <<>> THEN <<>>
    ELSE IF Len(array) = 1 THEN array[1]
    ELSE array[1] \o <<",", " ">> \o join(Tail(array))

\* Array.prototype.includes
arrayIncludes(array, v) == \E k \in 1..Len(array) : array[k] = v

\* promptRoutes.js: the validTones array
validTonesArray ==
    <<<<"f", "o", "r", "m", "a", "l">>, <<"c", "a", "s", "u", "a", "l">>, <<"f", "r", "i", "e",
                                                                            "n", "d", "l", "y">>,
      <<"p", "r", "o", "f", "e", "s", "s", "i", "o", "n", "a", "l">>, <<"c", "r", "e", "a",
                                                                        "t", "i", "v", "e">>, <<"c", "o", "n", "c",
                                                                                                "i", "s", "e">>>>

\* promptRoutes.js: the validTypes array
validTypesArray ==
    <<<<"e", "m", "a", "i", "l">>, <<"m", "e", "s", "s", "a", "g", "e">>, <<"e", "x", "p", "l",
                                                                            "a", "n", "a", "t",
                                                                            "i", "o", "n">>, <<"s", "u", "m", "m",
                                                                                               "a", "r", "y">>,
      <<"p", "r", "o", "p", "o", "s", "a", "l">>, <<"r", "e", "p", "o", "r", "t">>, <<"o", "t", "h", "e",
                                                                                      "r">>>>

\* res.status(status).json({error, message})
ErrorResponse(status, error, message) ==
    [status |-> status, error |-> error, message |-> message]

\* the middleware calls next()
PassedOn == [status |-> 0]

\* promptRoutes.js validateRewriteRequest
validateRewriteRequest(body) ==
    IF ~Truthy(body.prompt) \/ ~IsString(body.prompt)
    THEN ErrorResponse(400, <<"I", "n", "v", "a", "l", "i", "d", " ", "p", "r", "o", "m", "p",
                              "t">>, <<"P", "r", "o", "m", "p", "t", " ", "m", "u", "s", "t",
                                       " ", "b", "e", " ", "a", " ", "n", "o", "n", "-", "e",
                                       "m", "p", "t", "y", " ", "s", "t", "r", "i", "n", "g">>)
    ELSE IF Truthy(body.tone) /\ ~arrayIncludes(validTonesArray, body.tone)
    THEN ErrorResponse(400, <<"I", "n", "v", "a", "l", "i", "d", " ", "t", "o", "n", "e">>,
                       <<"T", "o", "n", "e", " ", "m", "u", "s", "t", " ", "b", "e", " ", "o",
                         "n", "e", " ", "o", "f", ":", " ">> \o join(validTonesArray))
    ELSE IF Truthy(body.type) /\ ~arrayIncludes(validTypesArray, body.type)
    THEN ErrorResponse(400, <<"I", "n", "v", "a", "l", "i", "d", " ", "t", "y", "p", "e">>,
                       <<"T", "y", "p", "e", " ", "m", "u", "s", "t", " ", "b", "e", " ", "o",
                         "n", "e", " ", "o", "f", ":", " ">> \o join(validTypesArray))
    ELSE PassedOn

\* PromptController.rewritePrompt: prompt.length > 5000
MaxPromptLength == 5000

\* a bug: the length check is missing
promptChecksNoLengthLimit(prompt) ==
    IF ~Truthy(prompt) \/ Len(trim(prompt)) = 0
    THEN ErrorResponse(400, <<"P", "r", "o", "m", "p", "t", " ", "i", "s", " ", "r", "e", "q",
                              "u", "i", "r", "e", "d">>, <<"P", "l", "e", "a", "s", "e", " ",
                                                           "p", "r", "o", "v", "i", "d", "e",
                                                           " ", "a", " ", "p", "r", "o", "m",
                                                           "p", "t", " ", "t", "o", " ", "r",
                                                           "e", "w", "r", "i", "t", "e">>)
    ELSE PassedOn

\* PromptController.rewritePrompt, "Validation"
promptChecks(prompt) ==
    IF ~Truthy(prompt) \/ Len(trim(prompt)) = 0
    THEN ErrorResponse(400, <<"P", "r", "o", "m", "p", "t", " ", "i", "s", " ", "r", "e", "q",
                              "u", "i", "r", "e", "d">>, <<"P", "l", "e", "a", "s", "e", " ",
                                                           "p", "r", "o", "v", "i", "d", "e",
                                                           " ", "a", " ", "p", "r", "o", "m",
                                                           "p", "t", " ", "t", "o", " ", "r",
                                                           "e", "w", "r", "i", "t", "e">>)
    ELSE IF Len(prompt) > MaxPromptLength
    THEN ErrorResponse(400, <<"P", "r", "o", "m", "p", "t", " ", "t", "o", "o", " ", "l", "o",
                              "n", "g">>, <<"P", "r", "o", "m", "p", "t", " ", "m", "u", "s",
                                            "t", " ", "b", "e", " ", "l", "e", "s", "s", " ",
                                            "t", "h", "a", "n", " ", "5", "0", "0", "0", " ",
                                            "c", "h", "a", "r", "a", "c", "t", "e", "r", "s">>)
    ELSE PassedOn

\* destructuring default: const { x = d } = req.body
withDefault(v, d) == IF v = Undefined THEN d ELSE v

\* PromptController.rewritePrompt: the 500 response for a failed result
aiErrorResponse(result) ==
    [status |-> 500,
     error |-> <<"A", "I", " ", "s", "e", "r", "v", "i", "c", "e", " ", "e", "r", "r", "o",
                 "r">>,
     message |-> result.error,
     details |-> result.details,
     fallback |-> result.fallback]

\* PromptController.rewritePrompt: the response object before the auto-save
rewriteData(prompt, tone, type, result) ==
    [originalPrompt |-> trim(prompt),
     rewrittenPrompt |-> result.rewrittenPrompt,
     tone |-> tone,
     type |-> type,
     metadata |-> result.metadata]

----------------------------------------------------------------------------
(* The Prompt model *)

\* Prompt.js: maxlength of originalPrompt
OriginalMaxLength == 5000
\* Prompt.js: maxlength of rewrittenPrompt
RewrittenMaxLength == 10000

DefaultTone == <<"p", "r", "o", "f", "e", "s", "s", "i", "o", "n", "a", "l">>
DefaultType == <<"o", "t", "h", "e", "r">>

\* a String path with trim: true: the setter trims strings, leaves the rest
trimSetter(v) == IF IsString(v) THEN trim(v) ELSE v

\* the updatedAt of a document, kept relative to its createdAt: the instant of
\* creation, or the later instant of a save() that modified the document
AtCreation == "createdAt"
Later == "later"

\* new Prompt({...}): _id assigned, setters and defaults applied; of
\* result.metadata the schema keeps processingTime, model and apiCost.  The
\* stamps of `timestamps: true`, which the first save() assigns, are given here
newPrompt(id, userId, originalPrompt, rewrittenPrompt, tone, type, metadata) ==
    [_id |-> id,
     userId |-> trimSetter(userId),
     originalPrompt |-> trimSetter(originalPrompt),
     rewrittenPrompt |-> trimSetter(rewrittenPrompt),
     tone |-> withDefault(tone, DefaultTone),
     type |-> withDefault(type, DefaultType),
     isFavorite |-> FALSE,
     timestamp |-> id,
     createdAt |-> id,
     updatedAt |-> AtCreation,
     metadata |-> metadata]

\* a required String path: a non-empty string
requiredString(v) == IsString(v) /\ v # <<>>

\* a bug: the enum validators of tone and type are missing
validateDocumentNoEnum(doc) ==
    /\ requiredString(doc.userId)
    /\ requiredString(doc.originalPrompt)
    /\ Len(doc.originalPrompt) <= OriginalMaxLength
    /\ requiredString(doc.rewrittenPrompt)
    /\ Len(doc.rewrittenPrompt) <= RewrittenMaxLength
    /\ requiredString(doc.tone)
    /\ requiredString(doc.type)

\* document validation run by save(): required, maxlength and enum validators
validateDocument(doc) ==
    /\ requiredString(doc.userId)
    /\ requiredString(doc.originalPrompt)
    /\ Len(doc.originalPrompt) <= OriginalMaxLength
    /\ requiredString(doc.rewrittenPrompt)
    /\ Len(doc.rewrittenPrompt) <= RewrittenMaxLength
    /\ requiredString(doc.tone) /\ doc.tone \in toneEnum
    /\ requiredString(doc.type) /\ doc.type \in typeEnum

\* promptSchema.pre('save'): the word counts
preSave(doc) ==
    IF Truthy(doc.originalPrompt) /\ Truthy(doc.rewrittenPrompt)
    THEN [doc EXCEPT !.metadata =
            [doc.metadata EXCEPT !.wordCount =
                [original |-> splitLength(doc.originalPrompt),
                 rewritten |-> splitLength(doc.rewrittenPrompt)]]]
    ELSE doc

\* the metadata subdocument built from the metadata of a rewrite result
resultMetadata(metadata) ==
    [wordCount |-> [original |-> 0, rewritten |-> 0],
     processingTime |-> metadata.processingTime,
     model |-> metadata.model,
     apiCost |-> metadata.apiCost]

----------------------------------------------------------------------------
(* Request slots *)

Slots == {1, 2}

Idle == [kind |-> "idle"]
NoLocals == [k |-> "none"]
NoCalls == [probes |-> 0, gens |-> 0, probe |-> "none", gen |-> "none", timer |-> "none"]

NoInput == [k |-> "none"]
NoOutput == [k |-> "none"]

\* the slot holds no request and nothing of an earlier one is outstanding
Free(s) == pc[s] = "idle"

\* no call or timer of the slot's request is still outstanding
Quiescent(s) ==
    /\ ai[s].probe # "pending"
    /\ ai[s].gen # "pending"
    /\ ai[s].timer # "armed"

\* a request that has yet to construct its document
WillConstruct(s) ==
    /\ req[s].kind = "rewrite"
    /\ pc[s] \in {"probing", "racing"}
    /\ Truthy(req[s].body.userId)

\* ids are handed out up to MaxDocs
DocBudget(s) ==
    nextId + Cardinality({t \in Slots \ {s} : WillConstruct(t)}) <= MaxDocs

\* res.status(...).json(...) ends the handler
Respond(s, response) ==
    /\ res' = [res EXCEPT ![s] = Append(@, response)]
    /\ pc' = [pc EXCEPT ![s] = "done"]
    /\ loc' = [loc EXCEPT ![s] = NoLocals]

----------------------------------------------------------------------------
(* POST /rewrite *)

\* PromptController.rewritePrompt from the result of geminiService.rewritePrompt
\* to the response or to the suspended historyItem.save()
AfterRewrite(s, body, result) ==
    LET tone == withDefault(body.tone, DefaultTone)
        type == withDefault(body.type, DefaultType)
        data == rewriteData(body.prompt, tone, type, result)
    IN  IF ~result.success
        THEN Respond(s, aiErrorResponse(result)) /\ nextId' = nextId
        ELSE IF Truthy(body.userId)
        THEN /\ pc' = [pc EXCEPT ![s] = "saving"]
             /\ loc' = [loc EXCEPT ![s] =
                    [data |-> data,
                     historyItem |->
                        newPrompt(nextId, body.userId, trim(body.prompt),
                                  result.rewrittenPrompt, tone, type,
                                  resultMetadata(result.metadata))]]
             /\ nextId' = nextId + 1
             /\ res' = res
        ELSE /\ Respond(s, [status |-> 200, success |-> TRUE, data |-> data])
             /\ nextId' = nextId

\* the request arrives: validateRewriteRequest, then PromptController.rewritePrompt
\* up to its first suspension; geminiService.rewritePrompt answers at once with
\* the mock response when the service is unavailable and otherwise issues the
\* probe of testConnection
RewriteStart(s, body, elapsed) ==
    /\ Free(s)
    /\ Truthy(body.userId) => DocBudget(s)
    /\ req' = [req EXCEPT ![s] = [kind |-> "rewrite", body |-> body]]
    /\ UNCHANGED <<genAI, model, store, tlog, fin, fout>>
    /\ LET v == validateRewriteRequest(body)
           tone == withDefault(body.tone, DefaultTone)
           type == withDefault(body.type, DefaultType)
       IN  IF v # PassedOn
           THEN Respond(s, v) /\ UNCHANGED <<ai, nextId>>
           ELSE IF promptChecks(body.prompt) # PassedOn
           THEN Respond(s, promptChecks(body.prompt)) /\ UNCHANGED <<ai, nextId>>
           ELSE IF serviceUnavailable(genAI, model)
           THEN /\ AfterRewrite(s, body,
                        getMockResponse(trim(body.prompt), tone, type, elapsed))
                /\ ai' = ai
           ELSE /\ ai' = [ai EXCEPT ![s] =
                        [NoCalls EXCEPT !.probes = 1, !.probe = "pending"]]
                /\ pc' = [pc EXCEPT ![s] = "probing"]
                /\ UNCHANGED <<loc, res, nextId>>

\* a bug: the generation call is issued whatever the probe reported
ProbeSettleGeneratesAnyway(s, outcome, elapsed) ==
    /\ pc[s] = "probing"
    /\ ai[s].probe = "pending"
    /\ UNCHANGED <<genAI, model, store, req, tlog, fin, fout>>
    /\ ai' = [ai EXCEPT ![s].probe = IF outcome.ok THEN "ok" ELSE "failed",
                        ![s].gens = @ + 1,
                        ![s].gen = "pending", ![s].timer = "armed"]
    /\ pc' = [pc EXCEPT ![s] = "racing"]
    /\ UNCHANGED <<loc, res, nextId>>

\* testConnection returns: on success the timer is armed and the generation
\* call issued, on failure rewritePrompt returns the connection failure
ProbeSettle(s, outcome, elapsed) ==
    /\ pc[s] = "probing"
    /\ ai[s].probe = "pending"
    /\ UNCHANGED <<genAI, model, store, req, tlog, fin, fout>>
    /\ LET body == req[s].body
           tone == withDefault(body.tone, DefaultTone)
           type == withDefault(body.type, DefaultType)
       IN  IF outcome.ok
           THEN /\ ai' = [ai EXCEPT ![s].probe = "ok", ![s].gens = @ + 1,
                                    ![s].gen = "pending", ![s].timer = "armed"]
                /\ pc' = [pc EXCEPT ![s] = "racing"]
                /\ UNCHANGED <<loc, res, nextId>>
           ELSE /\ ai' = [ai EXCEPT ![s].probe = "failed"]
                /\ AfterRewrite(s, body,
                        connectionFailedResult(outcome.message, trim(body.prompt),
                                               tone, type, elapsed))

\* the generation call settles; it decides the race only if the timer has not
GenerateSettle(s, outcome, elapsed) ==
    /\ ai[s].gen = "pending"
    /\ ai' = [ai EXCEPT ![s].gen = IF outcome.ok THEN "resolved" ELSE "rejected"]
    /\ UNCHANGED <<genAI, model, store, req, tlog, fin, fout>>
    /\ LET body == req[s].body
           tone == withDefault(body.tone, DefaultTone)
           type == withDefault(body.type, DefaultType)
       IN  IF pc[s] # "racing"
           THEN UNCHANGED <<pc, loc, res, nextId>>
           ELSE IF outcome.ok
           THEN AfterRewrite(s, body,
                    successResult(outcome.text, trim(body.prompt), tone, type, elapsed))
           ELSE AfterRewrite(s, body,
                    failureResult(outcome.message, trim(body.prompt), tone, type, elapsed))

\* a bug: the timer decides the result even after the race is settled
TimerFireAlwaysDecides(s, elapsed) ==
    /\ ai[s].timer = "armed"
    /\ ai' = [ai EXCEPT ![s].timer = "fired"]
    /\ UNCHANGED <<genAI, model, store, req, tlog, fin, fout>>
    /\ LET body == req[s].body
           tone == withDefault(body.tone, DefaultTone)
           type == withDefault(body.type, DefaultType)
       IN  AfterRewrite(s, body,
                failureResult(TimeoutError, trim(body.prompt), tone, type, elapsed))

\* the 30 second timer fires; it decides the race only if the call has not
TimerFire(s, elapsed) ==
    /\ ai[s].timer = "armed"
    /\ ai' = [ai EXCEPT ![s].timer = "fired"]
    /\ UNCHANGED <<genAI, model, store, req, tlog, fin, fout>>
    /\ LET body == req[s].body
           tone == withDefault(body.tone, DefaultTone)
           type == withDefault(body.type, DefaultType)
       IN  IF pc[s] # "racing"
           THEN UNCHANGED <<pc, loc, res, nextId>>
           ELSE AfterRewrite(s, body,
                    failureResult(TimeoutError, trim(body.prompt), tone, type, elapsed))

\* a bug: a failed auto-save fails the request
SaveSettleFailsRequest(s, storeOk) ==
    /\ pc[s] = "saving"
    /\ req[s].kind = "rewrite"
    /\ UNCHANGED <<genAI, model, nextId, req, ai, tlog, fin, fout>>
    /\ LET item == loc[s].historyItem
           data == loc[s].data
       IN  IF validateDocument(item) /\ storeOk
           THEN /\ store' = store \cup {preSave(item)}
                /\ Respond(s, [status |-> 200, success |-> TRUE,
                               data |-> data @@ [historyId |-> item._id,
                                                 savedToHistory |-> TRUE]])
           ELSE /\ store' = store
                /\ Respond(s, [status |-> 500, error |-> <<"s", "a", "v", "e", " ", "f", "a",
                                                           "i", "l", "e", "d">>])

\* historyItem.save() settles: it rejects when validation fails or the store
\* does (storeOk = FALSE); either way the 200 response is sent
SaveSettle(s, storeOk) ==
    /\ pc[s] = "saving"
    /\ req[s].kind = "rewrite"
    /\ UNCHANGED <<genAI, model, nextId, req, ai, tlog, fin, fout>>
    /\ LET item == loc[s].historyItem
           data == loc[s].data
       IN  IF validateDocument(item) /\ storeOk
           THEN /\ store' = store \cup {preSave(item)}
                /\ Respond(s, [status |-> 200, success |-> TRUE,
                               data |-> data @@ [historyId |-> item._id,
                                                 savedToHistory |-> TRUE]])
           ELSE /\ store' = store
                /\ Respond(s, [status |-> 200, success |-> TRUE,
                               data |-> data @@ [savedToHistory |-> FALSE]])

\* the slot is taken for the next request once nothing of the last one is
\* outstanding
Recycle(s) ==
    /\ pc[s] = "done"
    /\ Quiescent(s)
    /\ pc' = [pc EXCEPT ![s] = "idle"]
    /\ req' = [req EXCEPT ![s] = Idle]
    /\ ai' = [ai EXCEPT ![s] = NoCalls]
    /\ res' = [res EXCEPT ![s] = <<>>]
    /\ UNCHANGED <<genAI, model, store, nextId, loc, tlog, fin, fout>>

----------------------------------------------------------------------------
(* Store queries *)

\* documents matching the query {userId, type?, tone?, isFavorite: true?}; a
\* type or tone that is Undefined is absent from it, and isFavorite says
\* whether the query holds isFavorite: true
Matching(query) ==
    {d \in store :
        /\ query.userId # Undefined => d.userId = query.userId
        /\ query.type # Undefined => d.type = query.type
        /\ query.tone # Undefined => d.tone = query.tone
        /\ query.isFavorite => d.isFavorite}

RECURSIVE sortByTimestamp(_, _)
\* .sort({timestamp: direction}) of a set of documents
sortByTimestamp(docs, direction) ==
    IF docs = {} THEN <<>>
    ELSE LET first == CHOOSE d \in docs : \A e \in docs :
                        IF direction = -1 THEN d.timestamp >= e.timestamp
                                          ELSE d.timestamp <= e.timestamp
         IN  <<first>> \o sortByTimestamp(docs \ {first}, direction)

Min(a, b) == IF a <= b THEN a ELSE b

\* Prompt.find(query).sort(sortObj).skip(skip).limit(limit), limit >= 1
findPage(query, direction, skip, limit) ==
    LET sorted == sortByTimestamp(Matching(query), direction)
    IN  SubSeq(sorted, skip + 1, Min(Len(sorted), skip + limit))

\* Prompt.countDocuments(query)
countDocuments(query) == Cardinality(Matching(query))

\* the null a query answers when no document matches
NoDocument == [null |-> TRUE]

\* one document matching {_id, userId?}, or null
findOne(id, userId) ==
    LET found == {d \in store : d._id = id /\ (Truthy(userId) => d.userId = userId)}
    IN  IF found = {} THEN NoDocument ELSE CHOOSE d \in found : TRUE

DigitValue(c) ==
    CASE c = "0" -> 0 [] c = "1" -> 1 [] c = "2" -> 2 [] c = "3" -> 3 [] c = "4" -> 4
      [] c = "5" -> 5 [] c = "6" -> 6 [] c = "7" -> 7 [] c = "8" -> 8 [] c = "9" -> 9

RECURSIVE digitsValue(_, _, _)
\* value of the decimal digits s[k..], read up to the first non-digit
digitsValue(s, k, acc) ==
    IF k > Len(s) \/ s[k] \notin Digits THEN acc
    ELSE digitsValue(s, k + 1, 10 * acc + DigitValue(s[k]))

\* parseInt of an unsigned query string: the leading decimal digits, or "NaN"
parseInt(s) ==
    LET t == trim(s)
    IN  IF t = <<>> \/ t[1] \notin Digits THEN "NaN" ELSE digitsValue(t, 1, 0)

\* Math.ceil(a / b), b >= 1
ceilDiv(a, b) == (a + b - 1) \div b

\* a bug: hasNext computed from the page size, not from the records returned
paginationWrongHasNext(page, limit, skip, returned, total) ==
    [currentPage |-> page,
     totalPages |-> ceilDiv(total, limit),
     totalItems |-> total,
     itemsPerPage |-> limit,
     hasNext |-> skip + limit <= total,
     hasPrev |-> page > 1]

\* the pagination object of getHistory and getFavorites
pagination(page, limit, skip, returned, total) ==
    [currentPage |-> page,
     totalPages |-> ceilDiv(total, limit),
     totalItems |-> total,
     itemsPerPage |-> limit,
     hasNext |-> skip + returned < total,
     hasPrev |-> page > 1]

\* promptRoutes.js validateUserId, for a route with :userId
validateUserId(userId) ==
    IF ~Truthy(userId) \/ ~IsString(userId) \/ Len(trim(userId)) = 0
    THEN ErrorResponse(400, <<"I", "n", "v", "a", "l", "i", "d", " ", "u", "s", "e", "r", "I",
                              "d">>,
                       <<"u", "s", "e", "r", "I", "d", " ", "i", "s", " ", "r", "e", "q", "u",
                         "i", "r", "e", "d", " ", "a", "n", "d", " ", "m", "u", "s", "t", " ",
                         "b", "e", " ", "a", " ", "n", "o", "n", "-", "e", "m", "p", "t", "y",
                         " ", "s", "t", "r", "i", "n", "g">>)
    ELSE PassedOn

DeleteNotFoundMessage ==
    <<"T", "h", "e", " ", "r", "e", "q", "u", "e", "s", "t", "e", "d", " ", "h", "i",
      "s", "t", "o", "r", "y", " ", "i", "t", "e", "m", " ", "d", "o", "e", "s", " ",
      "n", "o", "t", " ", "e", "x", "i", "s", "t", " ", "o", "r", " ", "y", "o", "u",
      " ", "d", "o", " ", "n", "o", "t", " ", "h", "a", "v", "e", " ", "p", "e", "r",
      "m", "i", "s", "s", "i", "o", "n", " ", "t", "o", " ", "d", "e", "l", "e", "t",
      "e", " ", "i", "t">>

ToggleNotFoundMessage ==
    <<"T", "h", "e", " ", "r", "e", "q", "u", "e", "s", "t", "e", "d", " ", "h", "i",
      "s", "t", "o", "r", "y", " ", "i", "t", "e", "m", " ", "d", "o", "e", "s", " ",
      "n", "o", "t", " ", "e", "x", "i", "s", "t", " ", "o", "r", " ", "y", "o", "u",
      " ", "d", "o", " ", "n", "o", "t", " ", "h", "a", "v", "e", " ", "p", "e", "r",
      "m", "i", "s", "s", "i", "o", "n", " ", "t", "o", " ", "m", "o", "d", "i", "f",
      "y", " ", "i", "t">>

NotFound(message) == ErrorResponse(404, <<"H", "i", "s", "t", "o", "r", "y", " ", "i", "t",
                                          "e", "m", " ", "n", "o", "t", " ", "f", "o", "u",
                                          "n", "d">>, message)

\* the global error handler of the application for an error passed to next()
errorHandler(name, message) ==
    IF name = "ValidationError"
    THEN ErrorResponse(400, <<"V", "a", "l", "i", "d", "a", "t", "i", "o", "n", " ", "E", "r",
                              "r", "o", "r">>, message)
    ELSE IF name = "CastError"
    THEN ErrorResponse(400, <<"I", "n", "v", "a", "l", "i", "d", " ", "I", "D", " ", "f", "o",
                              "r", "m", "a", "t">>, <<"T", "h", "e", " ", "p", "r", "o", "v",
                                                      "i", "d", "e", "d", " ", "I", "D", " ",
                                                      "i", "s", " ", "n", "o", "t", " ", "v",
                                                      "a", "l", "i", "d">>)
    ELSE [status |-> 500, error |-> message]

----------------------------------------------------------------------------
(* GET /history/:userId and GET /favorites/:userId *)

\* the listing handlers up to Promise.all([find, countDocuments]); kind is
\* "history" or "favorites"; q holds the query string
ListStart(s, kind, userId, q) ==
    /\ Free(s)
    /\ req' = [req EXCEPT ![s] = [kind |-> kind, userId |-> userId, query |-> q]]
    /\ UNCHANGED <<genAI, model, store, nextId, ai, tlog, fin, fout>>
    /\ IF validateUserId(userId) # PassedOn
       THEN Respond(s, validateUserId(userId))
       ELSE LET page  == parseInt(withDefault(q.page, <<"1">>))
                limit == parseInt(withDefault(q.limit, <<"2", "0">>))
            IN  /\ pc' = [pc EXCEPT ![s] = "listing"]
                /\ res' = res
                /\ loc' = [loc EXCEPT ![s] =
                      [query |-> [userId |-> userId,
                                  type |-> IF kind = "history" /\ Truthy(q.type)
                                           THEN q.type ELSE Undefined,
                                  tone |-> IF kind = "history" /\ Truthy(q.tone)
                                           THEN q.tone ELSE Undefined,
                                  isFavorite |-> kind = "favorites"],
                       page |-> page,
                       limit |-> limit,
                       skip |-> (page - 1) * limit,
                       direction |-> IF withDefault(q.sortOrder, <<"d", "e", "s", "c">>) = <<"d", "e", "s", "c">>
                                     THEN -1 ELSE 1,
                       findDone |-> FALSE, prompts |-> <<>>,
                       countDone |-> FALSE, total |-> 0]]

\* the response of a listing handler once both queries have answered
ListResponse(kind, l) ==
    LET p == pagination(l.page, l.limit, l.skip, Len(l.prompts), l.total)
    IN  IF kind = "history"
        THEN [status |-> 200, success |-> TRUE,
              data |-> [prompts |-> l.prompts, pagination |-> p]]
        ELSE [status |-> 200, success |-> TRUE,
              data |-> [favorites |-> l.prompts, pagination |-> p]]

\* Prompt.find(...).sort().skip().limit().lean() answers
FindSettle(s) ==
    /\ pc[s] = "listing"
    /\ ~loc[s].findDone
    /\ UNCHANGED <<genAI, model, store, nextId, req, ai, tlog, fin, fout>>
    /\ LET l == [loc[s] EXCEPT
                    !.findDone = TRUE,
                    !.prompts = findPage(loc[s].query, loc[s].direction,
                                         loc[s].skip, loc[s].limit)]
       IN  IF l.countDone
           THEN Respond(s, ListResponse(req[s].kind, l))
           ELSE loc' = [loc EXCEPT ![s] = l] /\ UNCHANGED <<pc, res>>

\* Prompt.countDocuments(query) answers
CountSettle(s) ==
    /\ pc[s] = "listing"
    /\ ~loc[s].countDone
    /\ UNCHANGED <<genAI, model, store, nextId, req, ai, tlog, fin, fout>>
    /\ LET l == [loc[s] EXCEPT
                    !.countDone = TRUE,
                    !.total = countDocuments(loc[s].query)]
       IN  IF l.findDone
           THEN Respond(s, ListResponse(req[s].kind, l))
           ELSE loc' = [loc EXCEPT ![s] = l] /\ UNCHANGED <<pc, res>>

----------------------------------------------------------------------------
(* DELETE /history/:id *)

\* deleteHistoryItem up to Prompt.findOneAndDelete(query)
DeleteStart(s, id, userId) ==
    /\ Free(s)
    /\ req' = [req EXCEPT ![s] = [kind |-> "delete", id |-> id, userId |-> userId]]
    /\ pc' = [pc EXCEPT ![s] = "deleting"]
    /\ UNCHANGED <<genAI, model, store, nextId, loc, ai, res, tlog, fin, fout>>

\* a bug: the userId of the query string is left out of the query
DeleteSettleIgnoringOwner(s) ==
    /\ pc[s] = "deleting"
    /\ UNCHANGED <<genAI, model, nextId, req, ai, tlog, fin, fout>>
    /\ LET deletedItem == findOne(req[s].id, Undefined)
       IN  IF deletedItem = NoDocument
           THEN /\ store' = store
                /\ Respond(s, NotFound(DeleteNotFoundMessage))
           ELSE /\ store' = store \ {deletedItem}
                /\ Respond(s, [status |-> 200, success |-> TRUE,
                               data |-> [deletedId |-> req[s].id]])

\* Prompt.findOneAndDelete(query) answers: the store removes the matching
\* document, if any, in one operation
DeleteSettle(s) ==
    /\ pc[s] = "deleting"
    /\ UNCHANGED <<genAI, model, nextId, req, ai, tlog, fin, fout>>
    /\ LET deletedItem == findOne(req[s].id, req[s].userId)
       IN  IF deletedItem = NoDocument
           THEN /\ store' = store
                /\ Respond(s, NotFound(DeleteNotFoundMessage))
           ELSE /\ store' = store \ {deletedItem}
                /\ Respond(s, [status |-> 200, success |-> TRUE,
                               data |-> [deletedId |-> req[s].id]])

----------------------------------------------------------------------------
(* POST /history/favorite/:id *)

\* no toggle yet
NoEvent == [id |-> 0]

\* tlog holds the last two toggles that were saved, the later one second: for
\* each the _id, the isFavorite its findOne read and the isFavorite it saved
EmptyLog == <<NoEvent, NoEvent>>

\* the log after one more saved toggle
Logged(event) == <<tlog[2], event>>

\* toggleFavorite up to Prompt.findOne(query)
ToggleStart(s, id, userId) ==
    /\ Free(s)
    /\ req' = [req EXCEPT ![s] = [kind |-> "toggle", id |-> id, userId |-> userId]]
    /\ pc' = [pc EXCEPT ![s] = "finding"]
    /\ UNCHANGED <<genAI, model, store, nextId, loc, ai, res, tlog, fin, fout>>

\* Prompt.findOne(query) answers; the handler flips isFavorite on the document
\* it holds and calls save()
ToggleFound(s) ==
    /\ pc[s] = "finding"
    /\ UNCHANGED <<genAI, model, store, nextId, req, ai, fin, fout>>
    /\ LET prompt == findOne(req[s].id, req[s].userId)
       IN  IF prompt = NoDocument
           THEN /\ Respond(s, NotFound(ToggleNotFoundMessage))
                /\ tlog' = tlog
           ELSE /\ pc' = [pc EXCEPT ![s] = "toggling"]
                /\ loc' = [loc EXCEPT ![s] =
                        [prompt |-> [prompt EXCEPT !.isFavorite = ~prompt.isFavorite],
                         read |-> prompt.isFavorite]]
                /\ res' = res
                /\ tlog' = tlog

\* a bug: save() answers without the store taking the new value
ToggleSavedKeepsValue(s, storeOk) ==
    /\ pc[s] = "toggling"
    /\ UNCHANGED <<genAI, model, nextId, req, ai, fin, fout>>
    /\ LET prompt == loc[s].prompt
           stored == {d \in store : d._id = prompt._id}
       IN  IF stored = {} \/ ~storeOk
           THEN /\ store' = store
                /\ tlog' = tlog
                /\ Respond(s, errorHandler("Error", <<"s", "a", "v", "e", " ", "f", "a", "i",
                                                      "l", "e", "d">>))
           ELSE /\ store' = store
                /\ tlog' = Logged([id |-> prompt._id,
                                   read |-> loc[s].read,
                                   saved |-> prompt.isFavorite])
                /\ Respond(s, [status |-> 200, success |-> TRUE,
                               data |-> [id |-> prompt._id,
                                         isFavorite |-> prompt.isFavorite]])

\* a bug: the save also writes the timestamp path anew
ToggleSavedRestamps(s, storeOk) ==
    /\ pc[s] = "toggling"
    /\ UNCHANGED <<genAI, model, nextId, req, ai, fin, fout>>
    /\ LET prompt == loc[s].prompt
           stored == {d \in store : d._id = prompt._id}
       IN  IF stored = {} \/ ~storeOk
           THEN /\ store' = store
                /\ tlog' = tlog
                /\ Respond(s, errorHandler("Error", <<"s", "a", "v", "e", " ", "f", "a", "i",
                                                      "l", "e", "d">>))
           ELSE /\ store' = (store \ stored) \cup
                        {[d EXCEPT !.isFavorite = prompt.isFavorite,
                                   !.updatedAt = Later,
                                   !.timestamp = nextId] : d \in stored}
                /\ tlog' = Logged([id |-> prompt._id,
                                   read |-> loc[s].read,
                                   saved |-> prompt.isFavorite])
                /\ Respond(s, [status |-> 200, success |-> TRUE,
                               data |-> [id |-> prompt._id,
                                         isFavorite |-> prompt.isFavorite]])

\* prompt.save() settles: the store sets the modified path isFavorite of the
\* document with that _id and, the schema having `timestamps: true`, its
\* updatedAt (the pre-save hook recomputes the word counts from texts that
\* have not changed); it rejects when the document is gone or the store
\* fails, and next(error) answers 500
ToggleSaved(s, storeOk) ==
    /\ pc[s] = "toggling"
    /\ UNCHANGED <<genAI, model, nextId, req, ai, fin, fout>>
    /\ LET prompt == loc[s].prompt
           stored == {d \in store : d._id = prompt._id}
       IN  IF stored = {} \/ ~storeOk
           THEN /\ store' = store
                /\ tlog' = tlog
                /\ Respond(s, errorHandler("Error", <<"s", "a", "v", "e", " ", "f", "a", "i",
                                                      "l", "e", "d">>))
           ELSE /\ store' = (store \ stored) \cup
                        {[d EXCEPT !.isFavorite = prompt.isFavorite,
                                   !.updatedAt = Later] : d \in stored}
                /\ tlog' = Logged([id |-> prompt._id,
                                   read |-> loc[s].read,
                                   saved |-> prompt.isFavorite])
                /\ Respond(s, [status |-> 200, success |-> TRUE,
                               data |-> [id |-> prompt._id,
                                         isFavorite |-> prompt.isFavorite]])

----------------------------------------------------------------------------
(* POST /history *)

\* v || d
orDefault(v, d) == IF Truthy(v) THEN v ELSE d

\* the metadata subdocument of new Prompt({metadata: {}}): the schema defaults
DefaultMetadata ==
    [wordCount |-> [original |-> 0, rewritten |-> 0],
     processingTime |-> Undefined,
     model |-> <<"g", "e", "m", "i", "n", "i", "-", "p", "r", "o">>,
     apiCost |-> 0]

\* saveToHistory up to historyItem.save()
SaveHistoryStart(s, body) ==
    /\ Free(s)
    /\ DocBudget(s)
    /\ req' = [req EXCEPT ![s] = [kind |-> "save", body |-> body]]
    /\ UNCHANGED <<genAI, model, store, ai, tlog, fin, fout>>
    /\ IF ~Truthy(body.userId) \/ ~Truthy(body.originalPrompt)
            \/ ~Truthy(body.rewrittenPrompt)
       THEN /\ Respond(s, ErrorResponse(400, <<"M", "i", "s", "s", "i", "n", "g", " ", "r",
                                               "e", "q", "u", "i", "r", "e", "d", " ", "f",
                                               "i", "e", "l", "d", "s">>,
                    <<"u", "s", "e", "r", "I", "d", ",", " ", "o", "r", "i", "g", "i", "n",
                      "a", "l", "P", "r", "o", "m", "p", "t", ",", " ", "a", "n", "d", " ",
                      "r", "e", "w", "r", "i", "t", "t", "e", "n", "P", "r", "o", "m", "p",
                      "t", " ", "a", "r", "e", " ", "r", "e", "q", "u", "i", "r", "e", "d">>))
            /\ nextId' = nextId
       ELSE /\ pc' = [pc EXCEPT ![s] = "saving"]
            /\ loc' = [loc EXCEPT ![s] =
                    [historyItem |->
                        newPrompt(nextId, body.userId, body.originalPrompt,
                                  body.rewrittenPrompt,
                                  orDefault(body.tone, DefaultTone),
                                  orDefault(body.type, DefaultType),
                                  DefaultMetadata)]]
            /\ nextId' = nextId + 1
            /\ res' = res

\* historyItem.save() settles: 201 with the saved document, or next(error)
SaveHistorySettle(s, storeOk) ==
    /\ pc[s] = "saving"
    /\ req[s].kind = "save"
    /\ UNCHANGED <<genAI, model, nextId, req, ai, tlog, fin, fout>>
    /\ LET item == loc[s].historyItem
       IN  IF ~validateDocument(item)
           THEN /\ store' = store
                /\ Respond(s, errorHandler("ValidationError",
                                           <<"P", "r", "o", "m", "p", "t", " ", "v", "a", "l",
                                             "i", "d", "a", "t", "i", "o", "n", " ", "f", "a",
                                             "i", "l", "e", "d">>))
           ELSE IF ~storeOk
           THEN /\ store' = store
                /\ Respond(s, errorHandler("Error", <<"s", "a", "v", "e", " ", "f", "a", "i",
                                                      "l", "e", "d">>))
           ELSE /\ store' = store \cup {preSave(item)}
                /\ Respond(s, [status |-> 201, success |-> TRUE,
                               data |-> preSave(item)])

----------------------------------------------------------------------------
(* Inputs *)

HelloWorld == <<"h", "e", "l", "l", "o", " ", " ", " ", "w", "o", "r", "l", "d">>
Blank      == <<" ", " ">>
LongPrompt == [k \in 1..(MaxPromptLength + 1) |-> "a"]

UserA == <<"a", "n", "n">>
UserB == <<"b", "o", "b">>

\* GEMINI_API_KEY: unset, empty, of the wrong form, well formed
ApiKeys == {Undefined, <<>>, <<"s", "k", "-", "1">>, <<"A", "I", "z", "a", "1">>}

Prompts == {Undefined, AnObject, <<>>, Blank, HelloWorld, LongPrompt}
ToneInputs == {Undefined, <<>>, <<"f", "r", "i", "e", "n", "d", "l", "y">>, <<"e", "m", "a", "i",
                                                                              "l">>}
TypeInputs == {Undefined, <<"e", "m", "a", "i", "l">>, <<"e", "s", "s", "a", "y">>}
UserInputs == {Undefined, UserA}

RewriteBodies ==
    [prompt : Prompts, tone : ToneInputs, type : TypeInputs, userId : UserInputs]

Elapsed == 0..MaxElapsed

\* what the provider answers to a generation call
GenerateOutcomes ==
    {[ok |-> TRUE, text |-> <<" ", "I", "m", "p", "r", "o", "v", "e", "d", " ", "t", "e", "x",
                              "t", ".", " ">>]}
    \cup {[ok |-> FALSE, message |-> m] :
            m \in {<<"f", "e", "t", "c", "h", " ", "f", "a", "i", "l", "e", "d">>, <<"A", "P", "I", " ",
                                                                                     "k", "e", "y", " ",
                                                                                     "n", "o", "t", " ",
                                                                                     "v", "a", "l", "i",
                                                                                     "d">>, <<"q", "u", "o", "t",
                                                                                              "a", " ", "e", "x",
                                                                                              "c", "e", "e", "d",
                                                                                              "e", "d">>}}

\* what the provider answers to the probe
ProbeOutcomes ==
    {[ok |-> TRUE]} \cup {[ok |-> FALSE, message |-> <<"f", "e", "t", "c", "h", " ", "f", "a",
                                                       "i", "l", "e", "d">>]}

Ids == 1..MaxDocs
\* userId of a delete or toggle request: absent, empty, or a user
OwnerInputs == {Undefined, <<>>, UserA, UserB}

\* query strings of the listing routes: the defaults, a page size of one, the
\* second page of size one, ascending order, and a page size with trailing text
ListQueries ==
    {[page |-> Undefined, limit |-> Undefined, type |-> Undefined,
      tone |-> Undefined, sortOrder |-> Undefined],
     [page |-> Undefined, limit |-> <<"1">>, type |-> Undefined,
      tone |-> Undefined, sortOrder |-> Undefined],
     [page |-> <<"2">>, limit |-> <<"1">>, type |-> Undefined,
      tone |-> Undefined, sortOrder |-> Undefined],
     [page |-> <<"1">>, limit |-> <<"2", "x">>, type |-> Undefined,
      tone |-> Undefined, sortOrder |-> <<"a", "s", "c">>]}

SaveBodies ==
    [userId : {UserA, UserB}, originalPrompt : {<<"i", " ", "n", "e", "e", "d", " ", "u">>},
     rewrittenPrompt : {<<"I", " ", "n", "e", "e", "d", " ", "y", "o", "u", ".">>}, tone : {Undefined, <<"e", "m", "a", "i",
                                                                                                         "l">>},
     type : {Undefined}]

----------------------------------------------------------------------------
(* Specifications *)

InitService ==
    \E apiKey \in ApiKeys, ctorThrows \in BOOLEAN, modelThrows \in BOOLEAN :
        LET handle == initializeService(apiKey, ctorThrows, modelThrows)
        IN  genAI = handle.genAI /\ model = handle.model

Init ==
    /\ InitService
    /\ store = {}
    /\ nextId = 1
    /\ req = [s \in Slots |-> Idle]
    /\ pc = [s \in Slots |-> "idle"]
    /\ loc = [s \in Slots |-> NoLocals]
    /\ ai = [s \in Slots |-> NoCalls]
    /\ res = [s \in Slots |-> <<>>]
    /\ tlog = EmptyLog
    /\ fin = NoInput
    /\ fout = NoOutput

\* POST /rewrite served in one slot
NextRewrite ==
    \/ \E body \in RewriteBodies, e \in Elapsed : RewriteStart(1, body, e)
    \/ \E o \in ProbeOutcomes, e \in Elapsed : ProbeSettle(1, o, e)
    \/ \E o \in GenerateOutcomes, e \in Elapsed : GenerateSettle(1, o, e)
    \/ \E e \in Elapsed : TimerFire(1, e)
    \/ \E ok \in BOOLEAN : SaveSettle(1, ok)
    \/ Recycle(1)

SpecRewrite == Init /\ [][NextRewrite]_vars

\* what TimerFire(s, e) does to the timer, whatever the time e it reads
TimerElapses(s) ==
    /\ ai[s].timer = "armed"
    /\ ai' = [ai EXCEPT ![s].timer = "fired"]

\* POST /rewrite where the timer, once armed, fires and a save() that has been
\* called settles; nothing is assumed of the provider
SpecRewriteLive ==
    /\ SpecRewrite
    /\ WF_ai(TimerElapses(1))
    /\ WF_vars(\E ok \in BOOLEAN : SaveSettle(1, ok))

\* texts of at most n characters over the alphabet
Texts(alphabet, n) == UNION {[1..k -> alphabet] : k \in 0..n}

FallbackAlphabet == {"i", "u", "x", " ", "."}

\* a direct call getMockResponse(text, tone, type, startTime) is pending
InitFallback ==
    /\ genAI = initializeService(Undefined, FALSE, FALSE).genAI
    /\ model = initializeService(Undefined, FALSE, FALSE).model
    /\ store = {}
    /\ nextId = 1
    /\ req = [s \in Slots |-> Idle]
    /\ pc = [s \in Slots |-> "idle"]
    /\ loc = [s \in Slots |-> NoLocals]
    /\ ai = [s \in Slots |-> NoCalls]
    /\ res = [s \in Slots |-> <<>>]
    /\ tlog = EmptyLog
    /\ fin \in [text : Texts(FallbackAlphabet, MaxLen) \cup {HelloWorld},
                tone : toneEnum, type : typeEnum]
    /\ fout = NoOutput

\* the call returns
FallbackCall ==
    /\ fout = NoOutput
    /\ \E e \in Elapsed : fout' = getMockResponse(fin.text, fin.tone, fin.type, e)
    /\ UNCHANGED <<genAI, model, store, nextId, req, pc, loc, ai, res, tlog, fin>>

SpecFallback == InitFallback /\ [][FallbackCall]_vars

\* the state after construction with GEMINI_API_KEY unset
InitHistory ==
    /\ genAI = initializeService(Undefined, FALSE, FALSE).genAI
    /\ model = initializeService(Undefined, FALSE, FALSE).model
    /\ store = {}
    /\ nextId = 1
    /\ req = [s \in Slots |-> Idle]
    /\ pc = [s \in Slots |-> "idle"]
    /\ loc = [s \in Slots |-> NoLocals]
    /\ ai = [s \in Slots |-> NoCalls]
    /\ res = [s \in Slots |-> <<>>]
    /\ tlog = EmptyLog
    /\ fin = NoInput
    /\ fout = NoOutput

\* the history routes served one request at a time
NextSerial ==
    \/ \E body \in SaveBodies : SaveHistoryStart(1, body)
    \/ \E ok \in BOOLEAN : SaveHistorySettle(1, ok)
    \/ \E kind \in {"history", "favorites"}, u \in {UserA, UserB, Blank},
          q \in ListQueries : ListStart(1, kind, u, q)
    \/ FindSettle(1)
    \/ CountSettle(1)
    \/ \E id \in Ids, u \in OwnerInputs : DeleteStart(1, id, u)
    \/ DeleteSettle(1)
    \/ \E id \in Ids, u \in OwnerInputs : ToggleStart(1, id, u)
    \/ ToggleFound(1)
    \/ \E ok \in BOOLEAN : ToggleSaved(1, ok)
    \/ Recycle(1)

SpecSerial == InitHistory /\ [][NextSerial]_vars

\* one user's history with two requests in flight: saves, listings, deletes
\* and toggles in slot 1 and a toggleFavorite request beside them in slot 2
NextHistory ==
    \/ \E body \in {b \in SaveBodies : b.userId = UserA /\ b.tone = Undefined} :
            SaveHistoryStart(1, body)
    \/ SaveHistorySettle(1, TRUE)
    \/ \E kind \in {"history", "favorites"}, q \in ListQueries :
            ListStart(1, kind, UserA, q)
    \/ FindSettle(1)
    \/ CountSettle(1)
    \/ \E id \in Ids : DeleteStart(1, id, UserA)
    \/ DeleteSettle(1)
    \/ \E s \in Slots :
        \/ \E id \in Ids : ToggleStart(s, id, Undefined)
        \/ ToggleFound(s)
        \/ ToggleSaved(s, TRUE)
        \/ Recycle(s)

SpecHistory == InitHistory /\ [][NextHistory]_vars

\* bodies of POST /rewrite that ask for the auto-save, the tone unset or empty,
\* the type empty or of the enumeration
StoreRewriteBodies ==
    [prompt : {HelloWorld}, tone : {Undefined, <<>>},
     type : {<<>>, <<"e", "m", "a", "i", "l">>}, userId : {UserA}]

\* every operation that writes to the store, one request at a time: rewrites
\* with auto-save, explicit saves, deletes and toggles
NextStore ==
    \/ \E body \in StoreRewriteBodies, e \in Elapsed : RewriteStart(1, body, e)
    \/ \E o \in ProbeOutcomes, e \in Elapsed : ProbeSettle(1, o, e)
    \/ \E o \in GenerateOutcomes, e \in Elapsed : GenerateSettle(1, o, e)
    \/ \E e \in Elapsed : TimerFire(1, e)
    \/ \E ok \in BOOLEAN : SaveSettle(1, ok)
    \/ \E body \in {b \in SaveBodies : b.userId = UserA} : SaveHistoryStart(1, body)
    \/ \E ok \in BOOLEAN : SaveHistorySettle(1, ok)
    \/ \E id \in Ids, u \in {Undefined, UserA} : DeleteStart(1, id, u)
    \/ DeleteSettle(1)
    \/ \E id \in Ids : ToggleStart(1, id, Undefined)
    \/ ToggleFound(1)
    \/ \E ok \in BOOLEAN : ToggleSaved(1, ok)
    \/ Recycle(1)

SpecStore == Init /\ [][NextStore]_vars

\* every route in every slot
Next ==
    \E s \in Slots :
        \/ \E body \in RewriteBodies, e \in Elapsed : RewriteStart(s, body, e)
        \/ \E o \in ProbeOutcomes, e \in Elapsed : ProbeSettle(s, o, e)
        \/ \E o \in GenerateOutcomes, e \in Elapsed : GenerateSettle(s, o, e)
        \/ \E e \in Elapsed : TimerFire(s, e)
        \/ \E ok \in BOOLEAN : SaveSettle(s, ok)
        \/ \E body \in SaveBodies : SaveHistoryStart(s, body)
        \/ \E ok \in BOOLEAN : SaveHistorySettle(s, ok)
        \/ \E kind \in {"history", "favorites"}, u \in {UserA, UserB, Blank},
              q \in ListQueries : ListStart(s, kind, u, q)
        \/ FindSettle(s)
        \/ CountSettle(s)
        \/ \E id \in Ids, u \in OwnerInputs : DeleteStart(s, id, u)
        \/ DeleteSettle(s)
        \/ \E id \in Ids, u \in OwnerInputs : ToggleStart(s, id, u)
        \/ ToggleFound(s)
        \/ \E ok \in BOOLEAN : ToggleSaved(s, ok)
        \/ Recycle(s)

Spec == Init /\ [][Next]_vars

----------------------------------------------------------------------------
(* Properties *)

IsRewrite(s) == req[s].kind = "rewrite"

\* the request has been answered, once
Answered(s) == pc[s] = "done" /\ Len(res[s]) = 1

\* the request was answered with this status and no call went to the provider
RejectedWith(s, status) ==
    /\ Answered(s)
    /\ res[s][1].status = status
    /\ ai[s] = NoCalls

\* the tone and type the controller resolves for the request in slot s
ToneOf(s) == withDefault(req[s].body.tone, DefaultTone)
TypeOf(s) == withDefault(req[s].body.type, DefaultType)

\* the data of the 200 response of a rewrite, sent or awaiting the auto-save
ResultData(s) == IF pc[s] = "saving" THEN loc[s].data ELSE res[s][1].data

\* the text of the mock transform for the request in slot s
FallbackText(s) ==
    getMockResponse(trim(req[s].body.prompt), ToneOf(s), TypeOf(s), 0).rewrittenPrompt

LongRewrite(s) ==
    /\ IsRewrite(s)
    /\ IsString(req[s].body.prompt)
    /\ Len(req[s].body.prompt) > 5000

\* C1: a POST /rewrite whose prompt is longer than 5000 characters is answered
\* 400 without any probe or generation call, and no step taken while it is in
\* its slot writes to the store.
C1_LongPromptRejected ==
    /\ [](\A s \in Slots : LongRewrite(s) => RejectedWith(s, 400))
    /\ [][\A s \in Slots : LongRewrite(s)' => store' = store]_vars

C1_Witness ==
    \E s \in Slots :
        /\ LongRewrite(s)
        /\ RejectedWith(s, 400)
        /\ res[s][1].error = <<"P", "r", "o", "m", "p", "t", " ", "t", "o", "o", " ", "l", "o",
                               "n", "g">>

\* a tone or type is supplied and is outside the enumeration
InvalidToneOrType(s) ==
    /\ IsRewrite(s)
    /\ \/ req[s].body.tone # Undefined /\ req[s].body.tone \notin toneEnum
       \/ req[s].body.type # Undefined /\ req[s].body.type \notin typeEnum

\* the prompt passes the prompt checks of the middleware and of the controller
PromptAcceptable(s) ==
    /\ Truthy(req[s].body.prompt)
    /\ IsString(req[s].body.prompt)
    /\ promptChecks(req[s].body.prompt) = PassedOn

\* C2: a POST /rewrite that supplies a tone or a type outside its enumeration
\* is answered 400 and no call goes to the AI client; when the prompt itself
\* is acceptable the message names the valid values.
C2_InvalidToneOrTypeRejected ==
    \A s \in Slots :
        InvalidToneOrType(s) =>
            /\ RejectedWith(s, 400)
            /\ PromptAcceptable(s)
               => \/ res[s][1].message = <<"T", "o", "n", "e", " ", "m", "u", "s", "t", " ",
                                           "b", "e", " ", "o", "n", "e", " ", "o", "f", ":",
                                           " ">> \o join(validTonesArray)
                  \/ res[s][1].message = <<"T", "y", "p", "e", " ", "m", "u", "s", "t", " ",
                                           "b", "e", " ", "o", "n", "e", " ", "o", "f", ":",
                                           " ">> \o join(validTypesArray)

\* the timer fired while the generation call was still outstanding
TimedOut(s) == IsRewrite(s) /\ ai[s].timer = "fired" /\ ai[s].gen = "pending"

mentionsTimeout(text) ==
    includes(text, <<"t", "i", "m", "e", "o", "u", "t">>) \/ includes(text, <<"t", "i", "m", "e",
                                                                              "d", " ", "o", "u",
                                                                              "t">>)

\* the response to a timed out rewrite, but for the field naming the timeout
TimeoutResponse(s) ==
    /\ Answered(s)
    /\ res[s][1].status = 500
    /\ IsString(res[s][1].fallback.rewrittenPrompt)
    /\ res[s][1].fallback.rewrittenPrompt = FallbackText(s)

\* C3 as amended: when the generation call has not settled when the 30 second
\* timer fires, the response is a 500 whose message field mentions the timeout
\* (its error field is the fixed text "AI service error") and whose fallback
\* carries the mock transform's text for the same prompt, tone and type.
C3_TimeoutAnswered ==
    \A s \in Slots :
        TimedOut(s) =>
            /\ TimeoutResponse(s)
            /\ mentionsTimeout(res[s][1].message)
            /\ res[s][1].error = <<"A", "I", " ", "s", "e", "r", "v", "i", "c", "e", " ", "e",
                                   "r", "r", "o", "r">>

\* C3 as claimed: the error field of that response mentions the timeout.
C3_ErrorFieldMentionsTimeout ==
    \A s \in Slots :
        TimedOut(s) => TimeoutResponse(s) /\ mentionsTimeout(res[s][1].error)

C3_Witness == \E s \in Slots : TimedOut(s) /\ Answered(s)

\* the members every 200 response of a rewrite carries
DataMembers == {"originalPrompt", "rewrittenPrompt", "tone", "type", "metadata"}

\* the response of a rewrite that succeeded
SuccessResponse(s) ==
    LET r == res[s][1]
    IN  /\ r.status = 200
        /\ DataMembers \subseteq DOMAIN r.data
        /\ r.data.originalPrompt = trim(req[s].body.prompt)
        /\ r.data.tone = ToneOf(s)
        /\ r.data.type = TypeOf(s)

\* C4: the auto-save never fails the request.  When historyItem.save() settles
\* the response is a 200 with the five data members; if the store took the
\* record the response has savedToHistory = true and historyId is the _id of
\* the one record added; if it did not, savedToHistory = false, no historyId,
\* and the store is as before.  A 200 for a request without userId carries
\* neither member, and no step of such a request writes to the store.
C4_SaveFailureNotFatal ==
    /\ [][\A s \in Slots :
            (IsRewrite(s) /\ pc[s] = "saving" /\ pc'[s] = "done") =>
                /\ Len(res'[s]) = 1
                /\ SuccessResponse(s)'
                /\ "savedToHistory" \in DOMAIN res'[s][1].data
                /\ IF res'[s][1].data.savedToHistory
                   THEN /\ "historyId" \in DOMAIN res'[s][1].data
                        /\ \E d \in store' :
                              /\ d._id = res'[s][1].data.historyId
                              /\ d.userId = req[s].body.userId
                              /\ d \notin store
                              /\ store' = store \cup {d}
                   ELSE /\ "historyId" \notin DOMAIN res'[s][1].data
                        /\ store' = store]_vars
    /\ [][\A s \in Slots :
            (IsRewrite(s)' /\ ~Truthy(req'[s].body.userId)) => store' = store]_vars
    /\ [](\A s \in Slots :
            (IsRewrite(s) /\ Answered(s) /\ res[s][1].status = 200) =>
                /\ SuccessResponse(s)
                /\ Truthy(req[s].body.userId)
                     <=> "savedToHistory" \in DOMAIN res[s][1].data
                /\ ~Truthy(req[s].body.userId)
                     => "historyId" \notin DOMAIN res[s][1].data)

\* a store failure on a valid document: answered 200 with savedToHistory false
C4_Witness ==
    \E s \in Slots :
        /\ IsRewrite(s)
        /\ Answered(s)
        /\ res[s][1].status = 200
        /\ req[s].body.tone = Undefined
        /\ req[s].body.type = Undefined
        /\ "savedToHistory" \in DOMAIN res[s][1].data
        /\ ~res[s][1].data.savedToHistory

\* initializeService left the handle unavailable: each of its failure paths
\* (key unset, key not starting with "AIza", constructor or model construction
\* throwing) assigns null to genAI
LeftUnavailable == genAI = "null"

\* the request passes validateRewriteRequest and the controller's checks
Accepted(s) ==
    /\ IsRewrite(s)
    /\ validateRewriteRequest(req[s].body) = PassedOn
    /\ promptChecks(req[s].body.prompt) = PassedOn

\* the rewrite was answered by the mock transform alone, but for the model name
MockAnswer(s) ==
    /\ ai[s] = NoCalls
    /\ pc[s] \in {"saving", "done"}
    /\ pc[s] = "done" => Len(res[s]) = 1 /\ res[s][1].status = 200
    /\ ResultData(s).rewrittenPrompt = FallbackText(s)
    /\ ResultData(s).metadata.apiCost = 0

\* C5 as amended: with the handle left unavailable by the constructor, every
\* accepted rewrite is answered in its first step with a successful result
\* whose text is the mock transform's, whose model is "mock-gemini" and whose
\* apiCost is 0, no probe or generation call is ever issued, and no step
\* changes the handle.
C5_UnavailableAnswersMock ==
    /\ [](LeftUnavailable =>
            \A s \in Slots :
                /\ ai[s] = NoCalls
                /\ Accepted(s) =>
                     /\ MockAnswer(s)
                     /\ ResultData(s).metadata.model = <<"m", "o", "c", "k", "-", "g", "e",
                                                         "m", "i", "n", "i">>)
    /\ [][genAI' = genAI /\ model' = model]_vars

\* C5 as claimed: the model identifier of that result is "mock".
C5_ModelIsMock ==
    LeftUnavailable =>
        \A s \in Slots :
            Accepted(s) =>
                /\ MockAnswer(s)
                /\ ResultData(s).metadata.model = <<"m", "o", "c", "k">>

C5_Witness ==
    /\ LeftUnavailable
    /\ \E s \in Slots : Accepted(s) /\ Answered(s) /\ res[s][1].status = 200

\* the scenario: "hello   world", tone and type unset, service unavailable
HelloScenario(s) ==
    /\ LeftUnavailable
    /\ IsRewrite(s)
    /\ req[s].body.prompt = HelloWorld
    /\ req[s].body.tone = Undefined
    /\ req[s].body.type = Undefined

\* C6 as amended: in the scenario the rewritten text is exactly
\* "hello world." (whitespace runs collapsed, period appended, the first
\* letter left as it was).
C6_HelloWorldLowerCase ==
    \A s \in Slots :
        HelloScenario(s) =>
            /\ pc[s] \in {"saving", "done"}
            /\ ResultData(s).rewrittenPrompt = <<"h", "e", "l", "l", "o", " ", "w", "o", "r",
                                                 "l", "d", ".">>

\* C6 as claimed: the rewritten text is exactly "Hello world.".
C6_HelloWorldCapitalised ==
    \A s \in Slots :
        HelloScenario(s) =>
            /\ pc[s] \in {"saving", "done"}
            /\ ResultData(s).rewrittenPrompt = <<"H", "e", "l", "l", "o", " ", "w", "o", "r",
                                                 "l", "d", ".">>

C6_Witness ==
    \E s \in Slots : HelloScenario(s) /\ Answered(s) /\ res[s][1].status = 200

\* String.prototype.endsWith
endsWith(s, suffix) ==
    Len(s) >= Len(suffix) /\ SubSeq(s, Len(s) - Len(suffix) + 1, Len(s)) = suffix

\* C7 as amended: for every text, tone and type of the enumerations, the text
\* getMockResponse returns ends in '.', '!' or '?' when the type is not email;
\* when it is email the text ends with the signature of the template,
\* "[Your Name]", and what the template wraps ends in '.', '!' or '?'.
C7_EndsInPunctuationUnlessEmail ==
    fout # NoOutput =>
        LET out == fout.rewrittenPrompt
        IN  IF fin.type = <<"e", "m", "a", "i", "l">>
            THEN /\ startsWith(out, EmailHead)
                 /\ endsWith(out, EmailTail)
                 /\ endsWithPunctuation(
                        SubSeq(out, Len(EmailHead) + 1, Len(out) - Len(EmailTail)))
                 /\ ~endsWithPunctuation(out)
            ELSE endsWithPunctuation(out)

\* C7 as claimed: for every non-empty text the returned text ends in '.', '!'
\* or '?', the email template included.
C7_AlwaysEndsInPunctuation ==
    (fout # NoOutput /\ fin.text # <<>>) => endsWithPunctuation(fout.rewrittenPrompt)

\* a text without terminal punctuation, wrapped by the friendly tone
C7_Witness ==
    /\ fout # NoOutput
    /\ fin.text # <<>>
    /\ ~endsWithPunctuation(trim(fin.text))
    /\ fin.tone = <<"f", "r", "i", "e", "n", "d", "l", "y">>
    /\ fin.type # <<"e", "m", "a", "i", "l">>
    /\ endsWithPunctuation(fout.rewrittenPrompt)

\* a listing answered with every matching record on its page
WholeListing(s) ==
    /\ req[s].kind \in {"history", "favorites"}
    /\ Answered(s)
    /\ res[s][1].status = 200
    /\ res[s][1].data.pagination.currentPage = 1
    /\ res[s][1].data.pagination.totalItems <= res[s][1].data.pagination.itemsPerPage

\* the records of a listing response
Listed(s) ==
    LET page == IF req[s].kind = "history" THEN res[s][1].data.prompts
                ELSE res[s][1].data.favorites
    IN  {page[k] : k \in 1..Len(page)}

\* C8: deleteHistoryItem for the _id of a stored record X answers 404 and
\* leaves the store as it was when a userId is supplied that is not X's, and
\* otherwise (X's userId, or none) answers 200 and removes X and nothing else;
\* with requests served one at a time a listing of a user's history that
\* holds all matches on its page returns exactly that user's stored records,
\* so X is returned after the refused delete.
C8_DeleteScopedByOwner ==
    /\ [][\A s \in Slots :
            (pc[s] = "deleting" /\ pc'[s] = "done") =>
                \A x \in store :
                    x._id = req[s].id =>
                        IF Truthy(req[s].userId) /\ req[s].userId # x.userId
                        THEN /\ res'[s][1].status = 404
                             /\ store' = store
                        ELSE /\ res'[s][1].status = 200
                             /\ res'[s][1].data.deletedId = x._id
                             /\ store' = store \ {x}]_vars
    /\ [](\A s \in Slots :
            (WholeListing(s) /\ req[s].kind = "history") =>
                Listed(s) = {d \in store : d.userId = req[s].userId})

\* a delete refused for the wrong owner, the record still stored
C8_Witness ==
    \E s \in Slots :
        /\ req[s].kind = "delete"
        /\ Answered(s)
        /\ res[s][1].status = 404
        /\ \E x \in store : x._id = req[s].id /\ x.userId # req[s].userId

\* C9: with requests served one at a time, the later of two successive saved
\* toggles of a record saves the value the earlier one read, which is then
\* the stored value; every saved toggle saves the negation of what it read and
\* reports the stored value; a favorites listing returns only records of that
\* user with isFavorite true, and all of them when they fit on its page.
C9_DoubleToggleRestores ==
    /\ tlog[2].id # 0 =>
          /\ tlog[2].saved = ~tlog[2].read
          /\ \A d \in store : d._id = tlog[2].id => d.isFavorite = tlog[2].saved
    /\ (tlog[1].id # 0 /\ tlog[1].id = tlog[2].id) =>
          /\ tlog[2].saved = tlog[1].read
          /\ \A d \in store : d._id = tlog[2].id => d.isFavorite = tlog[1].read
    /\ \A s \in Slots :
          /\ (req[s].kind = "toggle" /\ Answered(s) /\ res[s][1].status = 200) =>
                /\ res[s][1].data.id = req[s].id
                /\ \E d \in store : d._id = req[s].id
                                    /\ d.isFavorite = res[s][1].data.isFavorite
          /\ (req[s].kind = "favorites" /\ Answered(s) /\ res[s][1].status = 200) =>
                \A d \in Listed(s) : d \in store /\ d.userId = req[s].userId /\ d.isFavorite
          /\ (WholeListing(s) /\ req[s].kind = "favorites") =>
                Listed(s) = {d \in store : d.userId = req[s].userId /\ d.isFavorite}

\* a record toggled from false and back, then left out of the favorites listed
C9_Witness ==
    /\ tlog[1].id # 0
    /\ tlog[1].id = tlog[2].id
    /\ tlog[1].read = FALSE
    /\ \E s \in Slots :
          /\ WholeListing(s)
          /\ req[s].kind = "favorites"
          /\ \E d \in store : /\ d._id = tlog[2].id
                              /\ d.userId = req[s].userId
                              /\ d \notin Listed(s)

\* the page number and page size a query string of ListQueries asks for
RequestedPage(q) == IF q.page = <<"2">> THEN 2 ELSE 1
RequestedLimit(q) ==
    IF q.limit = Undefined THEN 20 ELSE IF q.limit = <<"1">> THEN 1 ELSE 2

\* C10: in every 200 response of getHistory and getFavorites, with skip =
\* (currentPage - 1) * itemsPerPage: hasNext = (skip + records returned <
\* totalItems), hasPrev = (currentPage > 1), and at most itemsPerPage records
\* are returned; currentPage and itemsPerPage are the numbers requested.
C10_Pagination ==
    \A s \in Slots :
        (req[s].kind \in {"history", "favorites"} /\ Answered(s)
            /\ res[s][1].status = 200) =>
            LET p == res[s][1].data.pagination
                returned == IF req[s].kind = "history"
                            THEN Len(res[s][1].data.prompts)
                            ELSE Len(res[s][1].data.favorites)
                skip == (p.currentPage - 1) * p.itemsPerPage
            IN  /\ p.currentPage = RequestedPage(req[s].query)
                /\ p.itemsPerPage = RequestedLimit(req[s].query)
                /\ p.currentPage >= 1 /\ p.itemsPerPage >= 1
                /\ p.hasNext = (skip + returned < p.totalItems)
                /\ p.hasPrev = (p.currentPage > 1)
                /\ returned <= p.itemsPerPage

\* a first page of one record with more to come
C10_Witness ==
    \E s \in Slots :
        /\ req[s].kind \in {"history", "favorites"}
        /\ Answered(s)
        /\ res[s][1].status = 200
        /\ res[s][1].data.pagination.hasNext
        /\ res[s][1].data.pagination.totalItems = 2
        /\ res[s][1].data.pagination.itemsPerPage = 1

\* the rewrite in slot s found the probe failed
ProbeFailed(s) == IsRewrite(s) /\ ai[s].probe = "failed"

\* the failure details a probe can report
ProbeFailures == {o.message : o \in {p \in ProbeOutcomes : ~p.ok}}

\* C11: within one rewrite on a configured client at most one probe and at
\* most one generation call are ever issued; a generation call (and its timer)
\* exists only once the probe has succeeded; a failed probe is answered in the
\* same step by a 500 whose details are the probe's failure detail and whose
\* fallback holds the mock transform's text, with no generation call issued;
\* and no step of a request that has been answered issues a further call.
C11_ProbeThenGenerationOnce ==
    /\ [](\A s \in Slots :
            /\ ai[s].probes <= 1
            /\ ai[s].gens <= 1
            /\ ai[s].gens = 1 <=> ai[s].gen # "none"
            /\ ai[s].probes = 1 <=> ai[s].probe # "none"
            /\ (ai[s].gen # "none" \/ ai[s].timer # "none") => ai[s].probe = "ok"
            /\ ProbeFailed(s) =>
                  /\ ai[s].gens = 0
                  /\ Answered(s)
                  /\ res[s][1].status = 500
                  /\ res[s][1].message = <<"F", "a", "i", "l", "e", "d", " ", "t", "o", " ",
                                           "c", "o", "n", "n", "e", "c", "t", " ", "t", "o",
                                           " ", "G", "e", "m", "i", "n", "i", " ", "A", "P",
                                           "I">>
                  /\ res[s][1].details \in ProbeFailures
                  /\ res[s][1].fallback.success
                  /\ res[s][1].fallback.rewrittenPrompt = FallbackText(s))
    /\ [][\A s \in Slots :
            (pc[s] = "done" /\ pc'[s] = "done") =>
                /\ ai'[s].probes = ai[s].probes
                /\ ai'[s].gens = ai[s].gens]_vars

\* a failed probe answered with the detail the probe reported
C11_Witness ==
    \E s \in Slots :
        /\ ProbeFailed(s)
        /\ Answered(s)
        /\ res[s][1].details = <<"f", "e", "t", "c", "h", " ", "f", "a", "i", "l", "e", "d">>

\* the generation call of slot s settles in this step
GenSettles(s) == ai[s].gen = "pending" /\ ai'[s].gen \in {"resolved", "rejected"}

\* the timer of slot s fires in this step
TimerFires(s) == ai[s].timer = "armed" /\ ai'[s].timer = "fired"

\* the step leaves the request of slot s, its response and the store as they are
NothingObserved(s) ==
    /\ res'[s] = res[s]
    /\ pc'[s] = pc[s]
    /\ loc'[s] = loc[s]
    /\ store' = store

\* the texts the provider can generate, as rewritePrompt returns them
GeneratedTexts == {trim(o.text) : o \in {g \in GenerateOutcomes : g.ok}}

\* C12: the race is decided by the first settlement.  A generation call that
\* resolves while the timer is armed gives the successful result (the text
\* generated, model gemini-1.5-flash); a timer that fires while the call is
\* pending gives the 500 of the timeout; the settlement that comes second
\* changes neither the request's state or response nor the store; and a
\* request never has more than one response, which once sent stays as it is.
C12_FirstSettlementDecides ==
    /\ [][\A s \in Slots :
            /\ (GenSettles(s) /\ ai'[s].gen = "resolved" /\ ai[s].timer = "armed") =>
                  /\ pc'[s] \in {"saving", "done"}
                  /\ pc'[s] = "done" => Len(res'[s]) = 1 /\ res'[s][1].status = 200
                  /\ ResultData(s)'.rewrittenPrompt \in GeneratedTexts
                  /\ ResultData(s)'.metadata.model = <<"g", "e", "m", "i", "n", "i", "-", "1",
                                                       ".", "5", "-", "f", "l", "a", "s", "h">>
                  /\ store' = store
            /\ (TimerFires(s) /\ ai[s].gen = "pending") =>
                  /\ Answered(s)'
                  /\ res'[s][1].status = 500
                  /\ res'[s][1].details = TimeoutError
                  /\ store' = store
            /\ (TimerFires(s) /\ ai[s].gen # "pending") => NothingObserved(s)
            /\ (GenSettles(s) /\ ai[s].timer = "fired") => NothingObserved(s)
            /\ (Len(res[s]) = 1 /\ pc'[s] = "done") => res'[s] = res[s]]_vars
    /\ [](\A s \in Slots :
            /\ Len(res[s]) <= 1
            /\ pc[s] = "done" <=> Len(res[s]) = 1)

\* the timeout was answered and the generation call resolved afterwards
C12_Witness ==
    \E s \in Slots :
        /\ IsRewrite(s)
        /\ Answered(s)
        /\ res[s][1].status = 500
        /\ res[s][1].details = TimeoutError
        /\ ai[s].gen = "resolved"

\* the save of the toggle in slot s settles in this step
ToggleSaves(s) == pc[s] = "toggling" /\ pc'[s] = "done"

\* the stored documents are the same but for these fields of some of them
SameBut(fields) ==
    /\ {d._id : d \in store'} = {d._id : d \in store}
    /\ \A d \in store : \E e \in store' :
          /\ e._id = d._id
          /\ \A f \in (DOMAIN d) \ fields : e[f] = d[f]
          /\ DOMAIN e = DOMAIN d

\* the last two saved toggles were of one record and read the same value
LostUpdate ==
    /\ tlog[1].id # 0
    /\ tlog[1].id = tlog[2].id
    /\ tlog[1].read = tlog[2].read

\* what every interleaving of toggles keeps, the fields they leave alone apart
TogglesKeep ==
    /\ \A d \in store : d.isFavorite \in BOOLEAN
    /\ tlog[2].id # 0 =>
          /\ tlog[2].saved = ~tlog[2].read
          /\ \A d \in store : d._id = tlog[2].id => d.isFavorite = tlog[2].saved
    /\ LostUpdate =>
          /\ tlog[1].saved = tlog[2].saved
          /\ \A d \in store : d._id = tlog[2].id => d.isFavorite = ~tlog[1].read

\* C13 as amended: a toggle reads and later saves, and two toggles of one
\* record can both read the same value, in which case both save and report
\* its negation and the stored value ends flipped once (the state of the
\* witness); in every interleaving isFavorite stays a boolean, the last saved
\* toggle's value is the stored one, and the step that saves a toggle changes
\* of the stored documents no field other than isFavorite and updatedAt.
C13_TogglesRaceOnFavoriteOnly ==
    /\ []TogglesKeep
    /\ [][\A s \in Slots :
            ToggleSaves(s) => SameBut({"isFavorite", "updatedAt"})]_vars

\* C13 as claimed: the step that saves a toggle changes of the stored
\* documents no field other than isFavorite.
C13_TogglesChangeFavoriteAlone ==
    /\ []TogglesKeep
    /\ [][\A s \in Slots : ToggleSaves(s) => SameBut({"isFavorite"})]_vars

\* both toggles answered with the same isFavorite, the negation of the value
\* both read, which is the stored one
C13_Witness ==
    /\ LostUpdate
    /\ \E d \in store : d._id = tlog[2].id /\ d.isFavorite = ~tlog[1].read
    /\ \A s \in Slots :
          /\ req[s].kind = "toggle"
          /\ req[s].id = tlog[2].id
          /\ Answered(s)
          /\ res[s][1].status = 200
          /\ res[s][1].data.isFavorite = tlog[2].saved

\* the save() of a create (auto-save or POST /history) settles in this step
CreateSettles(s) == pc[s] = "saving" /\ pc'[s] = "done"

\* the document a create is about to save has its tone and type in the
\* enumerations
InEnumerations(doc) == doc.tone \in toneEnum /\ doc.type \in typeEnum

\* the create of slot s was refused: 400 for POST /history, savedToHistory
\* false for the auto-save of a rewrite
CreateRefused(s) ==
    /\ store' = store
    /\ Len(res'[s]) = 1
    /\ IF req[s].kind = "save"
       THEN res'[s][1].status = 400
       ELSE /\ res'[s][1].status = 200
            /\ ~res'[s][1].data.savedToHistory

\* every stored document is in store' as it was but for these fields, or has
\* been removed by the delete of its _id settling in this step
KeptBut(fields) ==
    \A d \in store :
        \/ \E e \in store' :
              /\ e._id = d._id
              /\ DOMAIN e = DOMAIN d
              /\ \A f \in (DOMAIN d) \ fields : e[f] = d[f]
        \/ /\ \A e \in store' : e._id # d._id
           /\ \E s \in Slots : /\ pc[s] = "deleting"
                                /\ pc'[s] = "done"
                                /\ req[s].id = d._id

\* the creates of the model keep the enumerations
CreatesKeepEnumerations ==
    \A s \in Slots :
        CreateSettles(s) =>
            /\ ~InEnumerations(loc[s].historyItem) => CreateRefused(s)
            /\ store' \subseteq store \cup {preSave(loc[s].historyItem)}

\* C14 as amended: every stored record has its tone and its type in the
\* enumerations; a create whose tone or type is outside them is refused and
\* leaves the store as it was; and every step keeps every stored record as it
\* was but for isFavorite and updatedAt, unless it is the delete of that
\* record.
C14_EnumerationsAndImmutability ==
    /\ [](\A d \in store : InEnumerations(d))
    /\ [][CreatesKeepEnumerations]_vars
    /\ [][KeptBut({"isFavorite", "updatedAt"})]_vars

\* C14 as claimed: every step keeps every stored record as it was but for
\* isFavorite, unless it is the delete of that record.
C14_OnlyFavoriteEverChanges ==
    /\ [](\A d \in store : InEnumerations(d))
    /\ [][CreatesKeepEnumerations]_vars
    /\ [][KeptBut({"isFavorite"})]_vars

\* a POST /history with a tone outside the enumeration refused, beside a
\* stored record that a toggle has saved
C14_Witness ==
    /\ \E d \in store : d.updatedAt = Later
    /\ \E s \in Slots :
          /\ req[s].kind = "save"
          /\ Truthy(req[s].body.tone)
          /\ req[s].body.tone \notin toneEnum
          /\ Answered(s)
          /\ res[s][1].status = 400

\* the request has its one response, a 200 or a 500
AnsweredOnce(s) == Answered(s) /\ res[s][1].status \in {200, 500}

\* the probe of the rewrite in slot s has been answered, or none was issued
Probed(s) == Accepted(s) /\ ai[s].probe # "pending"

\* what the timer gives: an accepted rewrite whose probe does not stay
\* unanswered gets its response, whatever becomes of the generation call
AnsweredOnceProbed == \A s \in Slots : Probed(s) ~> AnsweredOnce(s)

\* C15: every POST /rewrite that passes validation eventually has exactly one
\* response, a 200 or a 500, provided only that an armed timer fires and that
\* a save() settles, whatever the provider does.
C15_AcceptedEventuallyAnswered == \A s \in Slots : Accepted(s) ~> AnsweredOnce(s)

====
